---- MODULE Spec2Model ----
(***************************************************************************)
(* State-machine model of StarboardsManager (src/index.js): the in-memory  *)
(* registry `starboards`, the JSON storage file, the asynchronous startup  *)
(* load started by the constructor, the fire-and-forget storage writes of  *)
(* create/delete, the EventEmitter listeners and the raw packet handler.   *)
(***************************************************************************)
EXTENDS Integers, Sequences, FiniteSets, Bags, TLC

\* ---------------------------------------------------------------- bounds
MaxCreates == 2
MaxPending == 2

\* ------------------------------------------------------------- JS values
\* A JavaScript value: k is what typeof yields (null is kept apart).
Undefined == [k |-> "undefined", n |-> 0, s |-> "", b |-> FALSE]
JSNull == [k |-> "null", n |-> 0, s |-> "", b |-> FALSE]
JSNaN == [k |-> "number", n |-> 0, s |-> "NaN", b |-> FALSE]
JSString(x) == [k |-> "string", n |-> 0, s |-> x, b |-> FALSE]
JSNumber(i) == [k |-> "number", n |-> i, s |-> "", b |-> FALSE]
JSBoolean(v) == [k |-> "boolean", n |-> 0, s |-> "", b |-> v]
\* the number 1.5 (n is its integer part, s its fraction)
JSOneAndHalf == [k |-> "number", n |-> 1, s |-> ".5", b |-> FALSE]

typeof(v) == IF v.k = "null" THEN "object" ELSE v.k

Range(q) == {q[i] : i \in 1..Len(q)}

\* ---------------------------------------------------------------- inputs
Channels == {"c1", "c2"}

\* channel.guild.id of a channel object
GuildOf(c) == IF c = "c1" THEN "g1" ELSE "g2"

\* StarBoardCreateDefaultsOptions of ./constants
defaultsOptions ==
  [emoji |-> JSString("star"), starBotMsg |-> JSBoolean(TRUE),
   selfStar |-> JSBoolean(FALSE), threshold |-> JSNumber(5)]

\* The `options` argument of create: present = FALSE is a missing argument.
NoOptions ==
  [present |-> FALSE, emoji |-> Undefined, starBotMsg |-> Undefined,
   selfStar |-> Undefined, threshold |-> Undefined]

Opt(e, t) ==
  [present |-> TRUE, emoji |-> e, starBotMsg |-> Undefined,
   selfStar |-> Undefined, threshold |-> t]

OptionsInputs ==
  { NoOptions,
    Opt(JSString("e2"), JSNaN) }

\* more `options` arguments: each field given or left out, the threshold
\* also 0, negative and not an integer
OptFull(e, sb, ss, t) ==
  [present |-> TRUE, emoji |-> e, starBotMsg |-> sb, selfStar |-> ss, threshold |-> t]

OptionsAll ==
  OptionsInputs
  \cup { OptFull(JSString("e2"), Undefined, Undefined, Undefined) }
  \cup { OptFull(Undefined, JSBoolean(FALSE), JSBoolean(TRUE), t) :
           t \in {JSNumber(3), JSNumber(0), JSNumber(-1), JSOneAndHalf} }

\* ------------------------------------------------------- pure functions
_mergeOptions(options) ==
  IF ~options.present THEN defaultsOptions
  ELSE [emoji |-> IF typeof(options.emoji) = "string"
                    THEN options.emoji ELSE defaultsOptions.emoji,
        starBotMsg |-> IF typeof(options.starBotMsg) = "boolean"
                    THEN options.starBotMsg ELSE defaultsOptions.starBotMsg,
        selfStar |-> IF typeof(options.selfStar) = "boolean"
                    THEN options.selfStar ELSE defaultsOptions.selfStar,
        threshold |-> IF typeof(options.threshold) = "number"
                    THEN options.threshold ELSE defaultsOptions.threshold]

\* const channelData = { channelID, guildID, options } of create
ChannelData(channel, options) ==
  [channelID |-> channel, guildID |-> GuildOf(channel),
   options |-> _mergeOptions(options)]

NoData == [channelID |-> "", guildID |-> "", options |-> defaultsOptions]

\* variant: the find() of create compares the guildID of the stored entries
FindDuplicate_guildID(list, data) ==
  \E i \in 1..Len(list) :
     /\ list[i].guildID = data.channelID
     /\ list[i].options.emoji = data.options.emoji

\* the predicate of the find() in create: same channelID and same emoji
FindDuplicate(list, data) ==
  \E i \in 1..Len(list) :
     /\ list[i].channelID = data.channelID
     /\ list[i].options.emoji = data.options.emoji

\* variant: find() without the channelID test returns the first entry
FindByChannel_any(list, channelID) == IF Len(list) > 0 THEN 1 ELSE 0

\* this.starboards.find(d => d.channelID === id): index of the first match, 0 if none
FindByChannel(list, channelID) ==
  IF \E i \in 1..Len(list) : list[i].channelID = channelID
  THEN CHOOSE i \in 1..Len(list) :
         /\ list[i].channelID = channelID
         /\ \A j \in 1..(i - 1) : list[j].channelID # channelID
  ELSE 0

\* variant: delete removes only the entry its find() returned
FilterOut_firstOnly(list, channelID) ==
  LET first == IF \E i \in 1..Len(list) : list[i].channelID = channelID
               THEN CHOOSE i \in 1..Len(list) :
                      /\ list[i].channelID = channelID
                      /\ \A j \in 1..(i - 1) : list[j].channelID # channelID
               ELSE 0
  IN [k \in 1..(Len(list) - (IF first = 0 THEN 0 ELSE 1)) |->
        IF first = 0 \/ k < first THEN list[k] ELSE list[k + 1]]

\* this.starboards.filter(d => d.channelID !== channelID)
FilterOut(list, channelID) ==
  SelectSeq(list, LAMBDA d : d.channelID # channelID)

\* JSON.stringify of one value: NaN is written as null
StringifyValue(v) == IF v.k = "number" /\ v.s = "NaN" THEN JSNull ELSE v

StringifyData(d) ==
  [channelID |-> d.channelID, guildID |-> d.guildID,
   options |-> [emoji |-> StringifyValue(d.options.emoji),
                starBotMsg |-> StringifyValue(d.options.starBotMsg),
                selfStar |-> StringifyValue(d.options.selfStar),
                threshold |-> StringifyValue(d.options.threshold)]]

\* File contents. kind: "absent", "array" (a JSON array, in list),
\* "object" (valid JSON that is not an array), "truncated" (cut-off JSON).
FileAbsent == [kind |-> "absent", list |-> <<>>]
FileObject == [kind |-> "object", list |-> <<>>]
FileTruncated == [kind |-> "truncated", list |-> <<>>]
FileArray(l) == [kind |-> "array", list |-> l]

\* JSON.stringify(this.starboards)
Stringify(list) == FileArray([i \in 1..Len(list) |-> StringifyData(list[i])])

\* JSON.parse(storageContent) and Array.isArray in getAllStarboards: the
\* array that is returned, or the SyntaxError that is thrown
Parse(f) ==
  IF f.kind = "array" THEN [ok |-> TRUE, list |-> f.list]
  ELSE [ok |-> FALSE, list |-> <<>>]


\* EventEmitter.emit: the listeners of an event run synchronously in
\* registration order; a listener that throws ends the emit, the exception
\* propagating to the caller of emit. Result: the indices of the listeners run.
FirstThrow(ls) ==
  IF \E i \in 1..Len(ls) : ls[i] = "throw"
  THEN CHOOSE i \in 1..Len(ls) :
         ls[i] = "throw" /\ \A j \in 1..(i - 1) : ls[j] # "throw"
  ELSE 0

emit(ls) ==
  [invoked |-> [i \in 1..(IF FirstThrow(ls) = 0 THEN Len(ls) ELSE FirstThrow(ls)) |-> i],
   threw |-> FirstThrow(ls) # 0]

Events ==
  {"starboardCreate", "starboardDelete", "starboardReactionAdd",
   "starboardReactionRemove", "starboardReactionRemoveAll"}

Event(name, data) == [name |-> name, data |-> data]

\* ----------------------------------------------------------- raw packets
ReactionTypes ==
  {"MESSAGE_REACTION_ADD", "MESSAGE_REACTION_REMOVE", "MESSAGE_REACTION_REMOVE_ALL"}

PacketTypes == ReactionTypes \cup {"MESSAGE_CREATE"}

\* packet = { t, d: { channel_id, message_id, user_id, emoji: { name } } }.
\* Only the add and remove payloads carry an emoji. self: the reacting user
\* is the author of the message; count: users who reacted with that emoji
\* on the message (its live reaction state).
Packet(t, c, e, self, count) ==
  [t |-> t, channel_id |-> c, emoji |-> e, self |-> self, count |-> count]

NoPacket == Packet("", "", "", FALSE, 0)

Packets ==
  { Packet("MESSAGE_REACTION_ADD", c, e, m[1], m[2]) :
      c \in Channels, e \in {"star", "e2"},
      m \in {<<FALSE, 1>>, <<TRUE, 1>>, <<FALSE, 5>>} }
  \cup { Packet("MESSAGE_REACTION_REMOVE", c, e, FALSE, 0) :
           c \in Channels, e \in {"star", "e2"} }
  \cup { Packet(t, c, "", FALSE, 0) :
           t \in {"MESSAGE_REACTION_REMOVE_ALL", "MESSAGE_CREATE"}, c \in Channels }

\* how each entity is obtained: from the cache, by a fetch, or the fetch
\* fails (what follows a failed fetch is never asked for: written "cached")
Res(c, m, u) == [channel |-> c, message |-> m, user |-> u]

NoRes == Res("", "", "")

Resolutions ==
  { Res("cached", "cached", "cached"),
    Res("fetched", "fetched", "fetched"),
    Res("failed", "cached", "cached"),
    Res("cached", "failed", "cached"),
    Res("cached", "fetched", "failed") }

\* ----------------------------------------------------------------- state
VARIABLES
  starboards,  \* this.starboards
  file,        \* contents of the storage file this.options.storage
  writes,      \* bag of the writeFile calls of saveStarboard/deleteStarboard in flight
  initPc,      \* position of _init/getAllStarboards: "exists", "write", "read", "done", "failed"
  crashed,     \* the runtime ended the process on an unhandled rejection
  listeners,   \* EventEmitter listeners: event name -> sequence of "ok"/"throw"
  nCreates,    \* successful create calls so far
  last,        \* the step just taken and what it did (observation)
  conc,        \* configs of the successful creates issued back to back, no write completed between
  storage      \* typeof this.options.storage: "path" (a string) or "boolean"

vars == <<starboards, file, writes, initPc, crashed, listeners, nCreates, last, conc, storage>>

\* op: the operation or completion, ch: its channel argument, data: the
\* channelData built by create, outcome: "ok" (returned), "throw" (threw its
\* own error), "listenerThrow" (a listener's exception left emit), ...
\* before, pending, stored: this.starboards, the writes in flight and the
\* file when the operation was called.
\* packet, res: the raw packet handled and how its entities were resolved.
StepOf(op, ch, data, outcome, emitted, invoked, fetches, packet, res) ==
  [op |-> op, ch |-> ch, data |-> data, outcome |-> outcome, emitted |-> emitted,
   invoked |-> invoked, fetches |-> fetches, packet |-> packet, res |-> res,
   before |-> starboards, pending |-> writes, stored |-> file]

Step(op, ch, data, outcome, emitted, invoked, fetches) ==
  StepOf(op, ch, data, outcome, emitted, invoked, fetches, NoPacket, NoRes)

\* the record of a completion of storage I/O (no call of the manager)
IOStep(op, outcome) ==
  [op |-> op, ch |-> "", data |-> NoData, outcome |-> outcome, emitted |-> <<>>,
   invoked |-> <<>>, fetches |-> 0, packet |-> NoPacket, res |-> NoRes,
   before |-> <<>>, pending |-> EmptyBag, stored |-> FileAbsent]

\* Listeners the host application registered with manager.on right after
\* construction, the same for every event: "ok" returns, "throw" throws.
ListenerSetups ==
  { [e \in Events |-> <<"ok", "ok">>],
    [e \in Events |-> <<"ok", "throw", "ok">>] }

\* storage files a previous run can have left, or that are malformed
InitialFiles ==
  { FileAbsent, FileObject, FileTruncated,
    Stringify(<<ChannelData("c1", NoOptions)>>) }

\* The state when the constructor returns: starboards = [], _init() has
\* called getAllStarboards, which awaits existsAsync.
Init ==
  /\ starboards = <<>>
  /\ file \in InitialFiles
  /\ writes = EmptyBag
  /\ initPc = "exists"
  /\ crashed = FALSE
  /\ listeners \in ListenerSetups
  /\ nCreates = 0
  /\ last = IOStep("constructor", "ok")
  /\ conc = <<>>
  /\ storage = "path"

\* saveStarboard(data): writeFileAsync(storage, JSON.stringify(this.starboards))
\* is called before the first await; the result is the writes in flight.
\* A boolean is no path: fs.writeFile throws on it before any I/O, the
\* promise rejects and nothing is in flight.
saveStarboard(list) ==
  IF storage = "boolean" THEN writes ELSE writes (+) SetToBag({Stringify(list)})

\* deleteStarboard(channelID): the same write of the whole list
deleteStarboard(list) ==
  IF storage = "boolean" THEN writes ELSE writes (+) SetToBag({Stringify(list)})

\* create and delete neither await nor catch the promise of saveStarboard /
\* deleteStarboard: when it rejects at once (boolean storage) the rejection
\* is unhandled and the runtime either ends the process or only warns.
AfterSave == IF storage = "boolean" THEN BOOLEAN ELSE {crashed}

\* ------------------------------------------------------------- operations
\* variant: create pushes the new entry before it looks for a duplicate
create_pushFirst(channel, options) ==
  LET channelData == ChannelData(channel, options)
      e == emit(listeners["starboardCreate"])
  IN
  /\ ~crashed
  /\ IF FindDuplicate(starboards, channelData)
     THEN /\ nCreates < MaxCreates
          /\ starboards' = Append(starboards, channelData)
          /\ last' = Step("create", channel, channelData, "throw", <<>>, <<>>, 0)
          /\ nCreates' = nCreates + 1
          /\ conc' = <<>>
          /\ UNCHANGED <<file, writes, initPc, crashed, listeners, storage>>
     ELSE /\ nCreates < MaxCreates
          /\ BagCardinality(writes) < MaxPending
          /\ starboards' = Append(starboards, channelData)
          /\ writes' = saveStarboard(starboards')
          /\ last' = Step("create", channel, channelData, IF e.threw THEN "listenerThrow" ELSE "ok",
                          <<Event("starboardCreate", channelData)>>, e.invoked, 0)
          /\ nCreates' = nCreates + 1
          /\ conc' = IF initPc # "done" THEN <<>>
                     ELSE IF last.op = "create" /\ last.outcome = "ok"
                          THEN Append(conc, channelData)
                          ELSE <<channelData>>
          /\ crashed' \in AfterSave
          /\ UNCHANGED <<file, initPc, listeners, storage>>

create(channel, options) ==
  LET channelData == ChannelData(channel, options)
      e == emit(listeners["starboardCreate"])
  IN
  /\ ~crashed
  /\ IF FindDuplicate(starboards, channelData)
     THEN /\ last' = Step("create", channel, channelData, "throw", <<>>, <<>>, 0)
          /\ conc' = <<>>
          /\ UNCHANGED <<starboards, file, writes, initPc, crashed, listeners, nCreates, storage>>
     ELSE /\ nCreates < MaxCreates
          /\ BagCardinality(writes) < MaxPending
          /\ starboards' = Append(starboards, channelData)
          /\ writes' = saveStarboard(starboards')
          /\ last' = Step("create", channel, channelData, IF e.threw THEN "listenerThrow" ELSE "ok",
                          <<Event("starboardCreate", channelData)>>, e.invoked, 0)
          /\ nCreates' = nCreates + 1
          /\ conc' = IF initPc # "done" THEN <<>>
                     ELSE IF last.op = "create" /\ last.outcome = "ok"
                          THEN Append(conc, channelData)
                          ELSE <<channelData>>
          /\ crashed' \in AfterSave
          /\ UNCHANGED <<file, initPc, listeners, storage>>

\* variant: delete awaits deleteStarboard, so the file is written when it
\* emits and returns
deleteFrom_awaitsWrite(via, channelID) ==
  LET idx == FindByChannel(starboards, channelID)
      e == emit(listeners["starboardDelete"])
  IN
  /\ ~crashed
  /\ conc' = <<>>
  /\ IF idx = 0
     THEN /\ last' = Step(via, channelID, NoData, "throw", <<>>, <<>>, 0)
          /\ UNCHANGED <<starboards, file, writes, initPc, crashed, listeners, nCreates, storage>>
     ELSE /\ starboards' = FilterOut(starboards, channelID)
          /\ file' = Stringify(starboards')
          /\ last' = Step(via, channelID, NoData, IF e.threw THEN "listenerThrow" ELSE "ok",
                          <<Event("starboardDelete", starboards[idx])>>, e.invoked, 0)
          /\ UNCHANGED <<writes, initPc, crashed, listeners, nCreates, storage>>

\* delete(channelID), called by the user (via = "delete") or by the
\* channelDelete listener (via = "channelDelete")
deleteFrom(via, channelID) ==
  LET idx == FindByChannel(starboards, channelID)
      e == emit(listeners["starboardDelete"])
  IN
  /\ ~crashed
  /\ conc' = <<>>
  /\ IF idx = 0
     THEN /\ last' = Step(via, channelID, NoData, "throw", <<>>, <<>>, 0)
          /\ UNCHANGED <<starboards, file, writes, initPc, crashed, listeners, nCreates, storage>>
     ELSE /\ BagCardinality(writes) < MaxPending
          /\ starboards' = FilterOut(starboards, channelID)
          /\ writes' = deleteStarboard(starboards')
          /\ last' = Step(via, channelID, NoData, IF e.threw THEN "listenerThrow" ELSE "ok",
                          <<Event("starboardDelete", starboards[idx])>>, e.invoked, 0)
          /\ crashed' \in AfterSave
          /\ UNCHANGED <<file, initPc, listeners, nCreates, storage>>

\* variant: the payload of starboardDelete is the last entry of the channel
delete_lastMatch(channelID) ==
  LET idxs == {i \in 1..Len(starboards) : starboards[i].channelID = channelID}
      idx == CHOOSE i \in idxs : \A j \in idxs : j <= i
      e == emit(listeners["starboardDelete"])
  IN
  /\ ~crashed
  /\ conc' = <<>>
  /\ IF idxs = {}
     THEN /\ last' = Step("delete", channelID, NoData, "throw", <<>>, <<>>, 0)
          /\ UNCHANGED <<starboards, file, writes, initPc, crashed, listeners, nCreates, storage>>
     ELSE /\ BagCardinality(writes) < MaxPending
          /\ starboards' = FilterOut(starboards, channelID)
          /\ writes' = deleteStarboard(starboards')
          /\ last' = Step("delete", channelID, NoData, IF e.threw THEN "listenerThrow" ELSE "ok",
                          <<Event("starboardDelete", starboards[idx])>>, e.invoked, 0)
          /\ crashed' \in AfterSave
          /\ UNCHANGED <<file, initPc, listeners, nCreates, storage>>

delete(channelID) == deleteFrom("delete", channelID)

\* variant: the listener calls delete without looking the channel up first
channelDelete_noLookup(channel) == deleteFrom("channelDelete", channel)

\* client.on('channelDelete', channel => ...)
channelDelete(channel) ==
  LET idx == FindByChannel(starboards, channel)
  IN
  IF idx # 0
  THEN deleteFrom("channelDelete", starboards[idx].channelID)
  ELSE /\ ~crashed
       /\ last' = Step("channelDelete", channel, NoData, "noop", <<>>, <<>>, 0)
       /\ UNCHANGED <<starboards, file, writes, initPc, crashed, listeners, nCreates, conc,
                      storage>>

\* ------------------------------------------- getAllStarboards, step by step
\* existsAsync(storage) resolves. For a boolean storage fs.exists answers
\* false, and the writeFileAsync(storage, '[]') that follows rejects at once
\* (a boolean is no path): the promise of _init() rejects unhandled.
existsDone ==
  /\ ~crashed
  /\ initPc = "exists"
  /\ conc' = <<>>
  /\ IF storage = "boolean"
     THEN /\ initPc' = "failed"
          /\ crashed' \in BOOLEAN
          /\ last' = IOStep("exists", "reject")
     ELSE /\ initPc' = IF file.kind = "absent" THEN "write" ELSE "read"
          /\ last' = IOStep("exists", "ok")
          /\ UNCHANGED crashed
  /\ UNCHANGED <<starboards, file, writes, listeners, nCreates, storage>>

\* writeFileAsync(storage, '[]') resolves; getAllStarboards returns [] and
\* _init assigns it to this.starboards
initWriteDone ==
  /\ ~crashed
  /\ initPc = "write"
  /\ file' = FileArray(<<>>)
  /\ starboards' = <<>>
  /\ initPc' = "done"
  /\ last' = IOStep("initWrite", "ok")
  /\ conc' = <<>>
  /\ UNCHANGED <<writes, crashed, listeners, nCreates, storage>>

\* readFileAsync(storage) resolves; JSON.parse; an array is assigned to
\* this.starboards, anything else rejects the promise of _init(), which the
\* constructor neither awaits nor catches: the runtime either ends the
\* process or only warns, depending on its unhandled-rejection mode.
initReadDone ==
  /\ ~crashed
  /\ initPc = "read"
  /\ conc' = <<>>
  /\ IF Parse(file).ok
     THEN /\ starboards' = Parse(file).list
          /\ initPc' = "done"
          /\ last' = IOStep("initRead", "ok")
          /\ UNCHANGED crashed
     ELSE /\ initPc' = "failed"
          /\ crashed' \in BOOLEAN
          /\ last' = IOStep("initRead", "reject")
          /\ UNCHANGED starboards
  /\ UNCHANGED <<file, writes, listeners, nCreates, storage>>

\* one of the writeFile calls in flight reaches the file; calls in flight
\* at the same time complete in any order
writeDone(w) ==
  /\ ~crashed
  /\ BagIn(w, writes)
  /\ file' = w
  /\ writes' = writes (-) SetToBag({w})
  /\ last' = IOStep("writeDone", "ok")
  /\ UNCHANGED <<starboards, initPc, crashed, listeners, nCreates, conc, storage>>

\* one of the writeFile calls in flight fails (EACCES, ENOSPC, ...): the file
\* is left as it was when the open failed, cut short when a write failed.
\* The promise of saveStarboard/deleteStarboard rejects; create/delete
\* returned long ago and nothing catches it: unhandled rejection.
writeFail(w) ==
  /\ ~crashed
  /\ BagIn(w, writes)
  /\ last' = Step("writeFail", "", NoData, "unhandled", <<>>, <<>>, 0)
  /\ file' \in {file, FileTruncated}
  /\ writes' = writes (-) SetToBag({w})
  /\ crashed' \in BOOLEAN
  /\ UNCHANGED <<starboards, initPc, listeners, nCreates, conc, storage>>

\* ------------------------------------------------ handlers/raw (handleRaw)
NeedsUser(t) == t # "MESSAGE_REACTION_REMOVE_ALL"

\* fetches performed by the resolution channel -> message -> user, which
\* stops at the first failed fetch
FetchCount(t, res) ==
  LET one(r) == IF r = "cached" THEN 0 ELSE 1 IN
  IF res.channel = "failed" THEN 1
  ELSE IF res.message = "failed" THEN one(res.channel) + 1
  ELSE IF NeedsUser(t) THEN one(res.channel) + one(res.message) + one(res.user)
  ELSE one(res.channel) + one(res.message)

\* variant: a failed fetch of the user does not stop the handler
Resolved_ignoreUser(t, res) ==
  /\ res.channel # "failed"
  /\ res.message # "failed"

Resolved(t, res) ==
  /\ res.channel # "failed"
  /\ res.message # "failed"
  /\ NeedsUser(t) => res.user # "failed"

\* variant: no comparison of the emoji
EmojiMatches_any(packet, data) == TRUE

\* emoji filter: an add or remove packet passes when its emoji is the
\* options.emoji of the starboard found for its channel; a remove-all packet
\* carries no emoji and passes
EmojiMatches(packet, data) ==
  NeedsUser(packet.t) => JSString(packet.emoji) = data.options.emoji

\* variant: a reaction of the author on their own message is dropped when
\* options.selfStar is false, and so is one below options.threshold
Emits_qualifying(packet, data) ==
  /\ ~(packet.self /\ data.options.selfStar = JSBoolean(FALSE))
  /\ data.options.threshold.k = "number" => packet.count >= data.options.threshold.n

\* whether a resolved packet is emitted: always, whatever options.selfStar,
\* options.threshold and the reactions of the message are
Emits(packet, data) == TRUE

EventOf(t) ==
  IF t = "MESSAGE_REACTION_ADD" THEN "starboardReactionAdd"
  ELSE IF t = "MESSAGE_REACTION_REMOVE" THEN "starboardReactionRemove"
  ELSE "starboardReactionRemoveAll"

\* Packets are delivered while no storage write is in flight: handleRaw reads
\* this.starboards and the listeners only, and every content of the registry
\* is reached in such a state as well.
Quiescent == writes = EmptyBag

\* whether the packet gets as far as the resolution of its entities
Selected(packet) ==
  LET idx == FindByChannel(starboards, packet.channel_id) IN
  /\ packet.t \in ReactionTypes
  /\ idx # 0
  /\ EmojiMatches(packet, starboards[idx])

\* what handling the packet does, res being how its entities resolve
RawOutcome(packet, res) ==
  LET idx == FindByChannel(starboards, packet.channel_id)
      e == emit(listeners[EventOf(packet.t)])
  IN
  IF packet.t \notin ReactionTypes
  THEN StepOf("raw", packet.channel_id, NoData, "ignored", <<>>, <<>>, 0, packet, res)
  ELSE IF ~Selected(packet)
  THEN StepOf("raw", packet.channel_id, NoData, "discard", <<>>, <<>>, 0, packet, res)
  ELSE IF ~Resolved(packet.t, res)
  THEN StepOf("raw", packet.channel_id, NoData, "discard", <<>>, <<>>,
              FetchCount(packet.t, res), packet, res)
  ELSE IF ~Emits(packet, starboards[idx])
  THEN StepOf("raw", packet.channel_id, NoData, "ok", <<>>, <<>>,
              FetchCount(packet.t, res), packet, res)
  ELSE StepOf("raw", packet.channel_id, NoData, IF e.threw THEN "listenerThrow" ELSE "ok",
              <<Event(EventOf(packet.t), starboards[idx])>>, e.invoked,
              FetchCount(packet.t, res), packet, res)

\* variant: the handler writes the registry to storage after each packet
handleRaw_save(packet) ==
  /\ ~crashed
  /\ Quiescent
  /\ \E res \in (IF Selected(packet) THEN Resolutions ELSE {NoRes}) :
       last' = RawOutcome(packet, res)
  /\ writes' = saveStarboard(starboards)
  /\ UNCHANGED <<starboards, file, initPc, crashed, listeners, nCreates, conc, storage>>

\* client.on('raw', packet => handleRaw(this, packet)): type filter, lookup
\* of the starboard of the channel, emoji filter, resolution, emission
handleRaw(packet) ==
  /\ ~crashed
  /\ Quiescent
  /\ \E res \in (IF Selected(packet) THEN Resolutions ELSE {NoRes}) :
       last' = RawOutcome(packet, res)
  /\ UNCHANGED <<starboards, file, writes, initPc, crashed, listeners, nCreates, conc, storage>>

Next ==
  \/ \E c \in Channels, o \in OptionsInputs : create(c, o)
  \/ \E c \in Channels : delete(c)
  \/ \E c \in Channels : channelDelete(c)
  \/ existsDone
  \/ initWriteDone
  \/ initReadDone
  \/ \E w \in BagToSet(writes) : writeDone(w)

Spec == Init /\ [][Next]_vars

\* The manager after its startup load has completed on an absent file.
InitRaw ==
  /\ starboards = <<>>
  /\ file = FileArray(<<>>)
  /\ writes = EmptyBag
  /\ initPc = "done"
  /\ crashed = FALSE
  /\ listeners = [e \in Events |-> <<"ok", "ok">>]
  /\ nCreates = 0
  /\ last = IOStep("initWrite", "ok")
  /\ conc = <<>>
  /\ storage = "path"

NextRaw ==
  \/ \E c \in Channels, o \in OptionsInputs : create(c, o)
  \/ \E c \in Channels : delete(c)
  \/ \E c \in Channels : channelDelete(c)
  \/ \E w \in BagToSet(writes) : writeDone(w)
  \/ \E p \in Packets : handleRaw(p)

SpecRaw == InitRaw /\ [][NextRaw]_vars

\* The manager after its startup load, with the registry operations and the
\* completions of their writes only.
NextLoaded ==
  \/ \E c \in Channels, o \in OptionsInputs : create(c, o)
  \/ \E c \in Channels : delete(c)
  \/ \E c \in Channels : channelDelete(c)
  \/ \E w \in BagToSet(writes) : writeDone(w)

SpecLoaded == InitRaw /\ [][NextLoaded]_vars

\* The same, on a storage whose writes can fail.
NextFail ==
  \/ \E c \in Channels, o \in OptionsInputs : create(c, o)
  \/ \E c \in Channels : delete(c)
  \/ \E c \in Channels : channelDelete(c)
  \/ \E w \in BagToSet(writes) : writeDone(w)
  \/ \E w \in BagToSet(writes) : writeFail(w)

SpecFail == InitRaw /\ [][NextFail]_vars

\* new StarboardsManager(client, { storage: false }): no file is addressed
InitBoolean ==
  /\ starboards = <<>>
  /\ file = FileAbsent
  /\ writes = EmptyBag
  /\ initPc = "exists"
  /\ crashed = FALSE
  /\ listeners \in ListenerSetups
  /\ nCreates = 0
  /\ last = IOStep("constructor", "ok")
  /\ conc = <<>>
  /\ storage = "boolean"

NextBoolean ==
  \/ \E c \in Channels, o \in OptionsInputs : create(c, o)
  \/ \E c \in Channels : delete(c)
  \/ \E c \in Channels : channelDelete(c)
  \/ existsDone

SpecBoolean == InitBoolean /\ [][NextBoolean]_vars

\* create on the loaded manager with every kind of options argument
NextOptions == \E c \in Channels, o \in OptionsAll : create(c, o)

SpecOptions == InitRaw /\ [][NextOptions]_vars

\* ===================================================================
\* Properties
\* ===================================================================

\* C1: in every reachable state no two entries of this.starboards have the
\* same (channelID, options.emoji) pair.
C1_UniquePairs ==
  \A i, j \in 1..Len(starboards) :
     (i # j) =>
        ~(/\ starboards[i].channelID = starboards[j].channelID
          /\ starboards[i].options.emoji = starboards[j].options.emoji)

\* the registry holds two entries of one channel (different emojis) and a
\* create has just been refused
C1_Witness ==
  /\ \E i, j \in 1..Len(starboards) :
        i # j /\ starboards[i].channelID = starboards[j].channelID
  /\ last.op = "create"
  /\ last.outcome = "throw"

\* C2: a create whose (channelID, merged emoji) pair is already in the
\* registry throws and changes nothing: the list is the same, nothing is
\* emitted, no storage write is issued.
C2_DuplicateCreateChangesNothing ==
  (/\ last.op = "create"
   /\ \E i \in 1..Len(last.before) :
         /\ last.before[i].channelID = last.data.channelID
         /\ last.before[i].options.emoji = last.data.options.emoji)
  => (/\ last.outcome = "throw"
      /\ last.emitted = <<>>
      /\ last.invoked = <<>>
      /\ starboards = last.before
      /\ writes = last.pending
      /\ file = last.stored)

\* a create has just been refused as a duplicate
C2_Witness ==
  /\ last.op = "create"
  /\ last.outcome = "throw"
  /\ Len(starboards) >= 1

\* C3: after a delete(channelID) that returned, no entry of the registry has
\* that channelID; a delete for a channelID without entry throws and changes
\* nothing (same list, nothing emitted, no storage write issued).
C3_DeleteThenLookup ==
  /\ (last.op = "delete" /\ last.outcome = "ok")
     => \A i \in 1..Len(starboards) : starboards[i].channelID # last.ch
  /\ (/\ last.op = "delete"
      /\ \A i \in 1..Len(last.before) : last.before[i].channelID # last.ch)
     => (/\ last.outcome = "throw"
         /\ last.emitted = <<>>
         /\ starboards = last.before
         /\ writes = last.pending
         /\ file = last.stored)

\* a delete has just returned for a channel that had entries, others remain
C3_Witness ==
  /\ last.op = "delete"
  /\ last.outcome = "ok"
  /\ Len(starboards) >= 1

\* C4: two creates for different pairs issued back to back after startup
\* (the second before the write of the first completed) both succeed, and
\* once all writes have completed the file holds both configs.
C4_NoLostUpdate ==
  (Len(conc) >= 2 /\ writes = EmptyBag)
  => (/\ file.kind = "array"
      /\ \A i \in 1..Len(conc) : StringifyData(conc[i]) \in Range(file.list))

\* C5: a config in the registry stays there until a delete or channelDelete
\* removes it, also while the startup load is still in flight.
C5_CreatedStays ==
  [][ (last'.op \notin {"delete", "channelDelete"})
      => \A i \in 1..Len(starboards) : starboards[i] \in Range(starboards') ]_vars

\* C6: after several configs were registered after startup and all writes
\* have completed, what a fresh instance loads from the file equals the
\* registry as a set of configs.
C6_RoundTrip ==
  (Len(conc) >= 2 /\ initPc = "done" /\ writes = EmptyBag)
  => (/\ Parse(file).ok
      /\ Range(Parse(file).list) = Range(starboards))

\* C7: an absent file is created holding [] and the empty list is loaded; a
\* malformed file makes the load fail and the manager does not go on.
C7_LoadFailureSurfaced ==
  /\ last.op = "initWrite" => (file = FileArray(<<>>) /\ starboards = <<>>)
  /\ initPc = "failed" => crashed

\* C8: channelDelete for a channel with entries removes them, persists the
\* list and emits starboardDelete with the first entry, as delete does; for
\* a channel without entry it changes nothing, emits nothing, throws nothing.
C8_ChannelDelete ==
  last.op = "channelDelete" =>
    IF \E i \in 1..Len(last.before) : last.before[i].channelID = last.ch
    THEN /\ starboards = SelectSeq(last.before, LAMBDA d : d.channelID # last.ch)
         /\ last.outcome \in {"ok", "listenerThrow"}
         /\ Len(last.emitted) = 1
         /\ last.emitted[1].name = "starboardDelete"
         /\ last.emitted[1].data.channelID = last.ch
         /\ last.emitted[1].data \in Range(last.before)
         /\ writes = last.pending (+) SetToBag({Stringify(starboards)})
         /\ file = last.stored
    ELSE /\ last.outcome = "noop"
         /\ last.emitted = <<>>
         /\ starboards = last.before
         /\ writes = last.pending
         /\ file = last.stored

\* channelDelete has just removed the entries of a channel, others remain
C8_Witness ==
  /\ last.op = "channelDelete"
  /\ last.outcome = "ok"
  /\ Len(last.before) > Len(starboards)
  /\ Len(starboards) >= 1

\* C9: every emitted event reaches all its listeners in registration order,
\* and a throwing listener neither stops the later ones nor makes the
\* emitting operation fail.
C9_ListenersIsolated ==
  last.emitted # <<>>
  => (/\ last.invoked = [i \in 1..Len(listeners[last.emitted[1].name]) |-> i]
      /\ last.outcome = "ok")

C11_EventsOnlyForMatchingPackets ==
  (last.op = "raw" /\ last.emitted # <<>>)
  => /\ Len(last.emitted) = 1
     /\ \/ /\ last.packet.t = "MESSAGE_REACTION_ADD"
           /\ last.emitted[1].name = "starboardReactionAdd"
        \/ /\ last.packet.t = "MESSAGE_REACTION_REMOVE"
           /\ last.emitted[1].name = "starboardReactionRemove"
        \/ /\ last.packet.t = "MESSAGE_REACTION_REMOVE_ALL"
           /\ last.emitted[1].name = "starboardReactionRemoveAll"
     /\ \E i \in 1..Len(starboards) :
          /\ starboards[i] = last.emitted[1].data
          /\ starboards[i].channelID = last.packet.channel_id
          /\ last.packet.t # "MESSAGE_REACTION_REMOVE_ALL"
               => starboards[i].options.emoji = JSString(last.packet.emoji)

\* a reaction-add event has been emitted while the registry also holds a
\* starboard of another channel
C11_Witness ==
  /\ last.op = "raw"
  /\ last.packet.t = "MESSAGE_REACTION_ADD"
  /\ Len(last.emitted) = 1
  /\ \E i \in 1..Len(starboards) : starboards[i].channelID # last.packet.channel_id

\* C12: when a fetch of the channel, the message or the user fails while a
\* raw packet is resolved, the packet is discarded: no event is emitted, no
\* listener runs, no error escapes, no entity is fetched twice, and the
\* manager goes on handling packets.
C12_FetchFailureDiscards ==
  (/\ last.op = "raw"
   /\ \/ last.res.channel = "failed"
      \/ last.res.message = "failed"
      \/ last.res.user = "failed" /\ last.packet.t # "MESSAGE_REACTION_REMOVE_ALL")
  => /\ last.outcome = "discard"
     /\ last.emitted = <<>>
     /\ last.invoked = <<>>
     /\ last.fetches <= (IF last.res.channel = "failed" THEN 1
                         ELSE IF last.res.message = "failed" THEN 2 ELSE 3)
     /\ ~crashed
     /\ \A p \in Packets : ENABLED handleRaw(p)

\* the fetch of the reacting user has just failed after the message had
\* been fetched, on a channel that has a starboard
C12_Witness ==
  /\ last.op = "raw"
  /\ last.res.user = "failed"
  /\ last.packet.t = "MESSAGE_REACTION_ADD"
  /\ last.fetches = 2
  /\ last.outcome = "discard"

C14_RawLeavesRegistryAndStorage ==
  last.op = "raw"
  => /\ starboards = last.before
     /\ file = last.stored
     /\ writes = last.pending

\* a reaction-remove event has been emitted for a registered starboard
C14_Witness ==
  /\ last.op = "raw"
  /\ last.packet.t = "MESSAGE_REACTION_REMOVE"
  /\ Len(last.emitted) = 1
  /\ Len(starboards) >= 1
  /\ file = Stringify(starboards)

\* C15: with a boolean storage option no startup load, create or delete
\* reads or writes a storage file, and create and delete still succeed on
\* the in-memory registry: the manager stays up and a call that returned has
\* changed the list.
C15_BooleanStorageDisablesPersistence ==
  storage = "boolean"
  => /\ file = FileAbsent
     /\ writes = EmptyBag
     /\ ~crashed
     /\ (last.op = "create" /\ last.outcome = "ok") => last.data \in Range(starboards)
     /\ (last.op = "delete" /\ last.outcome = "ok")
          => \A i \in 1..Len(starboards) : starboards[i].channelID # last.ch

\* C16: every config of the registry has its four option fields set, each
\* the caller's value when given and the default otherwise, and a threshold
\* that is an integer of at least 1, whatever options argument create got.
C16_OptionsCompleteThresholdPositive ==
  /\ \A i \in 1..Len(starboards) :
       LET o == starboards[i].options IN
       /\ o.emoji.k = "string"
       /\ o.starBotMsg.k = "boolean"
       /\ o.selfStar.k = "boolean"
       /\ o.threshold.k = "number" /\ o.threshold.s = "" /\ o.threshold.n >= 1
  /\ \A a \in OptionsAll :
       LET o == ChannelData("c1", a).options
           given(v, d) == IF a.present /\ v # Undefined THEN v ELSE d
       IN
       /\ o.emoji = given(a.emoji, defaultsOptions.emoji)
       /\ o.starBotMsg = given(a.starBotMsg, defaultsOptions.starBotMsg)
       /\ o.selfStar = given(a.selfStar, defaultsOptions.selfStar)
       /\ o.threshold = given(a.threshold, defaultsOptions.threshold)

\* C17: whatever the interleaving of create and delete calls that do not
\* wait for each other's write, once no write is pending the storage holds
\* exactly the configs of the in-memory registry (so a config registered and
\* then unregistered is not in it).
C17_StorageMatchesRegistryWhenQuiet ==
  writes = EmptyBag
  => /\ file.kind = "array"
     /\ Range(file.list) = Range(Stringify(starboards).list)

\* C18: when starboardCreate is delivered the new config is in the list and
\* the full list including it has already been written to storage; likewise
\* starboardDelete is delivered after the list without the channel has been
\* written.
C18_PersistedBeforeEmit ==
  (last.op \in {"create", "delete"} /\ last.emitted # <<>>)
  => /\ last.op = "create" => last.data \in Range(starboards)
     /\ file = Stringify(starboards)

\* C19: delete(channelID) on a channel with several configs removes them all
\* in one call and emits exactly one starboardDelete, whose payload is the
\* first-registered config of that channel (create appends, so the first in
\* the list); the configs of other channels stay as they were.
C19_DeleteRemovesAllEmitsFirst ==
  /\ (last.op = "delete" /\ last.emitted # <<>>)
     => /\ \A i \in 1..Len(starboards) : starboards[i].channelID # last.ch
        /\ starboards = SelectSeq(last.before, LAMBDA d : d.channelID # last.ch)
        /\ Len(last.emitted) = 1
        /\ last.emitted[1].name = "starboardDelete"
        /\ \E i \in 1..Len(last.before) :
             /\ last.before[i] = last.emitted[1].data
             /\ last.before[i].channelID = last.ch
             /\ \A j \in 1..(i - 1) : last.before[j].channelID # last.ch
  /\ (last.op = "create" /\ last.emitted # <<>>)
     => starboards = Append(last.before, last.data)

\* delete has just removed two configs of one channel and left the config
\* of another channel
C19_Witness ==
  /\ last.op = "delete"
  /\ Len(last.emitted) = 1
  /\ Cardinality({i \in 1..Len(last.before) : last.before[i].channelID = last.ch}) = 2
  /\ Len(starboards) = 1

\* C20: create and delete return while their storage write is still in
\* flight; when the write later fails the in-memory list is kept as it is,
\* no event is emitted to retract the earlier one, the failure goes to no
\* caller, and the file may from then on differ from the registry.
C20_WriteNotAwaited ==
  /\ (last.op \in {"create", "delete"} /\ last.outcome = "ok")
     => /\ writes = last.pending (+) SetToBag({Stringify(starboards)})
        /\ file = last.stored
  /\ last.op = "writeFail"
     => /\ starboards = last.before
        /\ last.emitted = <<>>
        /\ last.outcome = "unhandled"

\* the only write in flight has failed, the process goes on, and the file
\* lacks a config of the registry
C20_Witness ==
  /\ last.op = "writeFail"
  /\ ~crashed
  /\ writes = EmptyBag
  /\ Len(starboards) >= 1
  /\ Parse(file).list # Stringify(starboards).list

====
